---- MODULE Spec2Model ----
(***************************************************************************)
(* wav2vec_extract_features.py: the manifest resolver (get_iterator), the  *)
(* output set-up (main.create_files) and the feature writer loop of main().*)
(* The embedding model is an opaque collaborator: one call per file that   *)
(* either fails or returns a matrix of T rows.                             *)
(***************************************************************************)
EXTENDS Integers, Sequences, FiniteSets, TLC

\* ------------------------------------------------------------- bounds
MaxFiles == 2   \* file entries of the manifests the run is started on
MaxRows == 2    \* rows T of one feature matrix
MaxText == 5    \* characters of a manifest text given to the resolver alone

VARIABLES
    pc,         \* position of main(); it stays where an exception was raised
    exit,       \* "running", "ok" (status zero), "error" (status non-zero)
    err,        \* the failure that ended the run, "none" when there is none
    srcFiles,   \* which of <data>/<split>.{tsv,wrd,phn} exist
    tsv,        \* text of <data>/<split>.tsv, a sequence of characters
    prior,      \* content of the output directory when the run started
    dst,        \* <save-dir>/<split>.{tsv,wrd,phn}: "absent", "old" or "src"
    npyExists,  \* <save-dir>/<split>.npy exists
    npy,        \* its rows
    npaaOpen,   \* the NpyAppendArray writer is held
    lengths,    \* lines of <save-dir>/<split>.lengths
    lfOpen,     \* l_f is open
    files,      \* get_iterator: the resolved paths
    num,        \* get_iterator: their count
    idx,        \* entries the generator has gone through
    w2v_feats,  \* the matrix being committed
    yielded,    \* matrices the generator has yielded, in order
    appends     \* calls of npaa.append that succeeded

vars == <<pc, exit, err, srcFiles, tsv, prior, dst, npyExists, npy, npaaOpen,
          lengths, lfOpen, files, num, idx, w2v_feats, yielded, appends>>

\* ------------------------------------------------------------ helpers
Chars == {"a", "/", " ", "\t", "\n"}
Whitespace == {" ", "\t", "\n"}
Aux == {"wrd", "phn"}

RECURSIVE Sum(_)
Sum(s) == IF s = <<>> THEN 0 ELSE Head(s) + Sum(Tail(s))

RECURSIVE Concat(_)
Concat(ms) == IF ms = <<>> THEN <<>> ELSE Head(ms) \o Concat(Tail(ms))

\* The matrix embed returns for the k-th manifest entry when it has T rows;
\* a row is named by the entry it comes from and its place in the matrix.
Matrix(k, T) == [r \in 1..T |-> <<k, r>>]

\* str.split(sep)
RECURSIVE SplitOn(_, _)
SplitOn(s, c) ==
    LET at == {i \in 1..Len(s) : s[i] = c}
    IN IF at = {} THEN <<s>>
       ELSE LET i == CHOOSE m \in at : \A o \in at : m <= o
            IN <<SubSeq(s, 1, i - 1)>> \o SplitOn(SubSeq(s, i + 1, Len(s)), c)

\* str.strip()
RECURSIVE Strip(_)
Strip(s) ==
    IF s = <<>> THEN s
    ELSE IF Head(s) \in Whitespace THEN Strip(Tail(s))
    ELSE IF s[Len(s)] \in Whitespace THEN Strip(SubSeq(s, 1, Len(s) - 1))
    ELSE s

\* os.path.join(a, p)
OsPathJoin(a, p) ==
    IF p # <<>> /\ Head(p) = "/" THEN p
    ELSE IF a = <<>> \/ a[Len(a)] = "/" THEN a \o p
    ELSE a \o <<"/">> \o p

EntryPathWholeLine(root, line) == OsPathJoin(root, line)

\* osp.join(root, line.split("\t")[0])
EntryPath(root, line) == OsPathJoin(root, SplitOn(line, "\t")[1])

\* [osp.join(root, line.split("\t")[0]) for line in lines if len(line) > 0]
RECURSIVE PathsOf(_, _)
PathsOf(root, lines) ==
    IF lines = <<>> THEN <<>>
    ELSE IF Len(Head(lines)) > 0
         THEN <<EntryPath(root, Head(lines))>> \o PathsOf(root, Tail(lines))
         ELSE PathsOf(root, Tail(lines))

\* lines = fp.read().split("\n"); root = lines.pop(0).strip(); files = [...]
ResolveFiles(text) ==
    LET lines == SplitOn(text, "\n")
    IN PathsOf(Strip(Head(lines)), Tail(lines))

\* ------------------------------------------------------------ inputs
\* relative paths of the entries of a started manifest
Names == <<"a", "b", "c", "d">>

RECURSIVE EntryLines(_)
EntryLines(n) ==
    IF n = 0 THEN <<>>
    ELSE EntryLines(n - 1) \o <<"\n", Names[n], "\t", "a">>

\* A manifest of n entries under the root "/ ", with or without the newline
\* that ends the last line.
ManifestText(n, trailing) ==
    <<"/", " ">> \o EntryLines(n) \o (IF trailing THEN <<"\n">> ELSE <<>>)

Manifests == {ManifestText(n, t) : n \in 0..MaxFiles, t \in BOOLEAN}

Texts == UNION {[1..n -> Chars] : n \in 0..MaxText}

StaleRows == <<<<0, 1>>>>
PriorDirs ==
    [npyExists : BOOLEAN, lengths : {<<>>, <<1>>}, aux : [Aux -> {"absent", "old"}]]

InitCommon ==
    /\ exit = "running"
    /\ err = "none"
    /\ lfOpen = FALSE
    /\ files = <<>>
    /\ num = 0
    /\ idx = 0
    /\ w2v_feats = <<>>
    /\ yielded = <<>>
    /\ appends = 0

Init ==
    /\ pc = "create_files"
    /\ srcFiles \in SUBSET {"tsv", "wrd", "phn"}
    /\ tsv \in (IF "tsv" \in srcFiles THEN Manifests ELSE {<<>>})
    /\ prior \in PriorDirs
    /\ dst = [e \in {"tsv"} \cup Aux |-> IF e = "tsv" THEN "absent" ELSE prior.aux[e]]
    /\ npyExists = prior.npyExists
    /\ npy = IF prior.npyExists THEN StaleRows ELSE <<>>
    /\ lengths = prior.lengths
    /\ npaaOpen = FALSE
    /\ InitCommon

\* ----------------------------------------------------------- actions
\* copyfile of the manifest, then of each label file that exists
CopiedAuxTogether ==
    [e \in {"tsv"} \cup Aux |->
        IF e = "tsv" \/ "wrd" \in srcFiles THEN "src" ELSE dst[e]]

Copied ==
    [e \in {"tsv"} \cup Aux |->
        IF e = "tsv" \/ e \in srcFiles THEN "src" ELSE dst[e]]

CreateFilesKeepsArray ==
    /\ pc = "create_files" /\ exit = "running"
    /\ "tsv" \in srcFiles
    /\ dst' = Copied
    /\ npaaOpen' = TRUE
    /\ pc' = "get_iterator"
    /\ UNCHANGED <<exit, err, srcFiles, tsv, prior, npyExists, npy, lengths,
                   lfOpen, files, num, idx, w2v_feats, yielded, appends>>

\* main.create_files, the manifest present
CreateFiles ==
    /\ pc = "create_files" /\ exit = "running"
    /\ "tsv" \in srcFiles
    /\ dst' = Copied
    /\ npyExists' = FALSE
    /\ npy' = <<>>
    /\ npaaOpen' = TRUE
    /\ pc' = "get_iterator"
    /\ UNCHANGED <<exit, err, srcFiles, tsv, prior, lengths, lfOpen, files, num,
                   idx, w2v_feats, yielded, appends>>

\* main.create_files, the manifest missing: copyfile raises
CreateFilesFail ==
    /\ pc = "create_files" /\ exit = "running"
    /\ "tsv" \notin srcFiles
    /\ exit' = "error"
    /\ err' = "manifest"
    /\ UNCHANGED <<pc, srcFiles, tsv, prior, dst, npyExists, npy, npaaOpen,
                   lengths, lfOpen, files, num, idx, w2v_feats, yielded, appends>>

\* get_iterator, the checkpoint loaded
GetIterator ==
    /\ pc = "get_iterator" /\ exit = "running"
    /\ files' = ResolveFiles(tsv)
    /\ num' = Len(files')
    /\ pc' = "open_lengths"
    /\ UNCHANGED <<exit, err, srcFiles, tsv, prior, dst, npyExists, npy,
                   npaaOpen, lengths, lfOpen, idx, w2v_feats, yielded, appends>>

\* get_iterator, Wav2VecFeatureReader(...) raises
GetIteratorFail ==
    /\ pc = "get_iterator" /\ exit = "running"
    /\ exit' = "error"
    /\ err' = "checkpoint"
    /\ UNCHANGED <<pc, srcFiles, tsv, prior, dst, npyExists, npy, npaaOpen,
                   lengths, lfOpen, files, num, idx, w2v_feats, yielded, appends>>

OpenLengthsForAppend ==
    /\ pc = "open_lengths" /\ exit = "running"
    /\ lfOpen' = TRUE
    /\ pc' = "next"
    /\ UNCHANGED <<exit, err, srcFiles, tsv, prior, dst, npyExists, npy,
                   npaaOpen, lengths, files, num, idx, w2v_feats, yielded, appends>>

\* with open(save_path + ".lengths", "w") as l_f
OpenLengths ==
    /\ pc = "open_lengths" /\ exit = "running"
    /\ lfOpen' = TRUE
    /\ lengths' = <<>>
    /\ pc' = "next"
    /\ UNCHANGED <<exit, err, srcFiles, tsv, prior, dst, npyExists, npy,
                   npaaOpen, files, num, idx, w2v_feats, yielded, appends>>

NextFeatsReversed ==
    /\ pc = "next" /\ exit = "running"
    /\ idx < Len(files)
    /\ \E T \in 0..MaxRows :
          /\ w2v_feats' = Matrix(Len(files) - idx, T)
          /\ yielded' = Append(yielded, w2v_feats')
    /\ idx' = idx + 1
    /\ pc' = "print"
    /\ UNCHANGED <<exit, err, srcFiles, tsv, prior, dst, npyExists, npy,
                   npaaOpen, lengths, lfOpen, files, num, appends>>

\* the generator resumes: reader.get_feats(fname) returns, the loop body starts
NextFeats ==
    /\ pc = "next" /\ exit = "running"
    /\ idx < Len(files)
    /\ \E T \in 0..MaxRows :
          /\ w2v_feats' = Matrix(idx + 1, T)
          /\ yielded' = Append(yielded, w2v_feats')
    /\ idx' = idx + 1
    /\ pc' = "print"
    /\ UNCHANGED <<exit, err, srcFiles, tsv, prior, dst, npyExists, npy,
                   npaaOpen, lengths, lfOpen, files, num, appends>>

EmbedFailSkips ==
    /\ pc = "next" /\ exit = "running"
    /\ idx < Len(files)
    /\ err' = "embed"
    /\ idx' = idx + 1
    /\ UNCHANGED <<pc, exit, srcFiles, tsv, prior, dst, npyExists, npy, npaaOpen,
                   lengths, lfOpen, files, num, w2v_feats, yielded, appends>>

\* reader.get_feats(fname) raises (sf.read, the sample-rate assertion, the
\* model): the exception leaves the with block, which closes l_f, and main()
EmbedFail ==
    /\ pc = "next" /\ exit = "running"
    /\ idx < Len(files)
    /\ exit' = "error"
    /\ err' = "embed"
    /\ lfOpen' = FALSE
    /\ UNCHANGED <<pc, srcFiles, tsv, prior, dst, npyExists, npy, npaaOpen,
                   lengths, files, num, idx, w2v_feats, yielded, appends>>

\* the generator is exhausted: the with block closes l_f and main() returns
Exhausted ==
    /\ pc = "next" /\ exit = "running"
    /\ idx = Len(files)
    /\ lfOpen' = FALSE
    /\ pc' = "done"
    /\ exit' = "ok"
    /\ UNCHANGED <<err, srcFiles, tsv, prior, dst, npyExists, npy, npaaOpen,
                   lengths, files, num, idx, w2v_feats, yielded, appends>>

PrintLenSkipsEmpty ==
    /\ pc = "print" /\ exit = "running"
    /\ lengths' = IF Len(w2v_feats) > 0 THEN Append(lengths, Len(w2v_feats))
                  ELSE lengths
    /\ pc' = IF Len(w2v_feats) > 0 THEN "append" ELSE "next"
    /\ UNCHANGED <<exit, err, srcFiles, tsv, prior, dst, npyExists, npy,
                   npaaOpen, lfOpen, files, num, idx, w2v_feats, yielded, appends>>

PrintLenForgotten ==
    /\ pc = "print" /\ exit = "running"
    /\ pc' = IF Len(w2v_feats) > 0 THEN "append" ELSE "next"
    /\ UNCHANGED <<exit, err, srcFiles, tsv, prior, dst, npyExists, npy, lengths,
                   npaaOpen, lfOpen, files, num, idx, w2v_feats, yielded, appends>>

\* print(len(w2v_feats), file=l_f); if len(w2v_feats) > 0:
PrintLen ==
    /\ pc = "print" /\ exit = "running"
    /\ lengths' = Append(lengths, Len(w2v_feats))
    /\ pc' = IF Len(w2v_feats) > 0 THEN "append" ELSE "next"
    /\ UNCHANGED <<exit, err, srcFiles, tsv, prior, dst, npyExists, npy,
                   npaaOpen, lfOpen, files, num, idx, w2v_feats, yielded, appends>>

AppendFeatsOverwrites ==
    /\ pc = "append" /\ exit = "running"
    /\ npy' = w2v_feats
    /\ npyExists' = TRUE
    /\ appends' = appends + 1
    /\ pc' = "next"
    /\ UNCHANGED <<exit, err, srcFiles, tsv, prior, dst, npaaOpen, lengths,
                   lfOpen, files, num, idx, w2v_feats, yielded>>

\* npaa.append(w2v_feats.numpy())
AppendFeats ==
    /\ pc = "append" /\ exit = "running"
    /\ npy' = npy \o w2v_feats
    /\ npyExists' = TRUE
    /\ appends' = appends + 1
    /\ pc' = "next"
    /\ UNCHANGED <<exit, err, srcFiles, tsv, prior, dst, npaaOpen, lengths,
                   lfOpen, files, num, idx, w2v_feats, yielded>>

\* npaa.append raises: the with block closes l_f, the exception leaves main()
AppendFail ==
    /\ pc = "append" /\ exit = "running"
    /\ exit' = "error"
    /\ err' = "append"
    /\ lfOpen' = FALSE
    /\ UNCHANGED <<pc, srcFiles, tsv, prior, dst, npyExists, npy, npaaOpen,
                   lengths, files, num, idx, w2v_feats, yielded, appends>>

Next ==
    \/ CreateFiles
    \/ CreateFilesFail
    \/ GetIterator
    \/ GetIteratorFail
    \/ OpenLengths
    \/ NextFeats
    \/ EmbedFail
    \/ Exhausted
    \/ PrintLen
    \/ AppendFeats
    \/ AppendFail

Spec == Init /\ [][Next]_vars

\* The resolver alone, entered after create_files in an empty output
\* directory, on every manifest text of at most MaxText characters.
InitResolver ==
    /\ pc = "get_iterator"
    /\ srcFiles = {"tsv"}
    /\ tsv \in Texts
    /\ prior = [npyExists |-> FALSE, lengths |-> <<>>, aux |-> [e \in Aux |-> "absent"]]
    /\ dst = [e \in {"tsv"} \cup Aux |-> IF e = "tsv" THEN "src" ELSE "absent"]
    /\ npyExists = FALSE
    /\ npy = <<>>
    /\ lengths = <<>>
    /\ npaaOpen = TRUE
    /\ InitCommon

NextResolver ==
    \/ GetIterator
    \/ GetIteratorFail

SpecResolver == InitResolver /\ [][NextResolver]_vars

\* ------------------------------------------------------------- claims
Completed == exit = "ok"

\* C1: when main() completes, the Lengths Manifest holds exactly one line per
\* file entry of the Split Manifest: its line count is the count num that
\* get_iterator returned, whatever the row counts of the matrices (0 included)
\* and whatever the file held before the run.
C1_OneLinePerEntry ==
    Completed => /\ Len(lengths) = num
                 /\ num = Len(files)
                 /\ Len(lengths) = Len(yielded)

C1_Witness ==
    /\ Completed
    /\ num = MaxFiles
    /\ prior.lengths # <<>>
    /\ \E k \in 1..Len(yielded) : Len(yielded[k]) = 0

\* C2: after a completed run the row count of the Feature Array is the sum of
\* the integers written to the Lengths Manifest.
C2_RowsEqualSumOfLengths ==
    Completed => Len(npy) = Sum(lengths)

C2_Witness ==
    /\ Completed
    /\ Len(lengths) >= 2
    /\ \A k \in 1..Len(lengths) : lengths[k] > 0

\* Offset of the k-th file's segment when the array is sliced by the lengths.
Offset(k) == Sum(SubSeq(lengths, 1, k - 1))

\* C3: files are embedded, recorded and appended in manifest order: the k-th
\* matrix yielded is the one of the k-th manifest entry, line k of the Lengths
\* Manifest is its row count, and the rows of the Feature Array from offset
\* sum(lengths[1..k-1]) of length lengths[k] are exactly its rows.
C3_ManifestOrder ==
    (pc \in {"next", "done"}) =>
        /\ Len(lengths) = Len(yielded)
        /\ \A k \in 1..Len(lengths) :
              /\ yielded[k] = Matrix(k, Len(yielded[k]))
              /\ lengths[k] = Len(yielded[k])
              /\ Offset(k) + lengths[k] <= Len(npy)
              /\ SubSeq(npy, Offset(k) + 1, Offset(k) + lengths[k]) = yielded[k]

C3_Witness ==
    /\ Completed
    /\ Len(lengths) >= 2
    /\ lengths[1] > 0
    /\ lengths[2] > 0
    /\ lengths[1] # lengths[2]

\* C4: a pre-existing <save-dir>/<split>.npy is deleted before the first
\* append of the run, so after a completed run the array holds exactly the
\* rows of this run, for any prior content.
C4_FreshArray ==
    /\ (pc # "create_files") => \A i \in 1..Len(npy) : npy[i] \notin
                                    {StaleRows[j] : j \in 1..Len(StaleRows)}
    /\ Completed => npy = Concat(yielded)

C4_Witness ==
    /\ Completed
    /\ prior.npyExists
    /\ Len(yielded) = 2
    /\ Len(npy) = Len(yielded[1]) + Len(yielded[2])
    /\ Len(npy) > Len(StaleRows)

\* C5: both output resources, the Feature Array writer and the Lengths
\* Manifest file, are released on every exit path of main(): no path leaves
\* either resource open at exit.
C5_ReleasedAtExit ==
    (exit # "running") => (~lfOpen /\ ~npaaOpen)

\* C6: a failure of the embedding step for the k-th file is fatal: the process
\* ends with a non-zero status, nothing runs after it (no retry, no skip), no
\* length line and no array rows exist for the k-th or any later file; the
\* status is zero only when every manifest entry was processed.
C6_EmbedFailureIsFatal ==
    [][ /\ (err = "embed" => UNCHANGED vars)
        /\ (err' = "embed" =>
               /\ exit' = "error"
               /\ Len(yielded') = idx'
               /\ Len(lengths') = idx'
               /\ idx' < num'
               /\ \A i \in 1..Len(npy') : npy'[i][1] <= idx')
        /\ (exit' = "ok" =>
               /\ err' = "none"
               /\ idx' = num'
               /\ Len(yielded') = num'
               /\ Len(lengths') = num') ]_vars

C6_Witness ==
    /\ err = "embed"
    /\ exit = "error"
    /\ idx = 1
    /\ num = MaxFiles
    /\ Len(npy) > 0

\* C7: the split manifest is copied unconditionally, each label file (.wrd,
\* .phn) is copied if and only if it exists at the source, independently of
\* the other; the absence of either or both does not abort the run.
C7_AuxCopiedIffPresent ==
    /\ (pc # "create_files") =>
          /\ dst["tsv"] = "src"
          /\ \A e \in Aux : /\ (dst[e] = "src") <=> (e \in srcFiles)
                            /\ (e \notin srcFiles) => dst[e] = prior.aux[e]
    /\ (pc = "create_files" /\ exit = "error") => "tsv" \notin srcFiles
    /\ (err = "manifest") => "tsv" \notin srcFiles

C7_Witness ==
    /\ Completed
    /\ "phn" \in srcFiles
    /\ "wrd" \notin srcFiles
    /\ dst["phn"] = "src"
    /\ dst["wrd"] = "old"

\* ---- the manifest text read directly, line by line
NewlineAt == {i \in 1..Len(tsv) : tsv[i] = "\n"}
KthNewline(k) == CHOOSE i \in NewlineAt : Cardinality({m \in NewlineAt : m < i}) = k - 1
LineCount == Cardinality(NewlineAt) + 1
LineStart(j) == IF j = 1 THEN 1 ELSE KthNewline(j - 1) + 1
LineEnd(j) == IF j = LineCount THEN Len(tsv) ELSE KthNewline(j) - 1
Line(j) == SubSeq(tsv, LineStart(j), LineEnd(j))
EntryLineNos == {j \in 2..LineCount : LineEnd(j) >= LineStart(j)}
KthEntry(k) == CHOOSE j \in EntryLineNos : Cardinality({m \in EntryLineNos : m < j}) = k - 1
FirstField(line) ==
    LET tabs == {i \in 1..Len(line) : line[i] = "\t"}
    IN IF tabs = {} THEN line
       ELSE SubSeq(line, 1, (CHOOSE m \in tabs : \A o \in tabs : m <= o) - 1)
Trimmed(line) ==
    LET solid == {i \in 1..Len(line) : line[i] \notin Whitespace}
    IN IF solid = {} THEN <<>>
       ELSE SubSeq(line, CHOOSE m \in solid : \A o \in solid : m <= o,
                         CHOOSE m \in solid : \A o \in solid : m >= o)
Resolved == pc \notin {"create_files", "get_iterator"}

\* C8 as stated: the first line of the manifest is the root, and the resolver
\* yields, in manifest order, one path per subsequent non-empty line, the root
\* joined with the line's first tab-delimited field (the whole line when it has
\* no tab); the count is the number of subsequent non-empty lines.
C8_FirstLineIsRoot ==
    Resolved =>
        /\ num = Cardinality(EntryLineNos)
        /\ Len(files) = num
        /\ \A k \in 1..num :
              files[k] = OsPathJoin(Line(1), FirstField(Line(KthEntry(k))))

\* C8 amended: the root is the first line with its leading and trailing
\* whitespace removed; the rest as stated.
C8_StrippedFirstLineIsRoot ==
    Resolved =>
        /\ num = Cardinality(EntryLineNos)
        /\ Len(files) = num
        /\ \A k \in 1..num :
              files[k] = OsPathJoin(Trimmed(Line(1)), FirstField(Line(KthEntry(k))))

C8_Witness ==
    /\ Resolved
    /\ num >= 1
    /\ Line(1) # Trimmed(Line(1))
    /\ LineCount > num + 1
    /\ \E k \in 1..num : FirstField(Line(KthEntry(k))) # Line(KthEntry(k))

Committed(k) == Len(yielded[k]) > 0

\* C9: a file whose matrix has zero rows still gets the line 0 and no append;
\* a file whose matrix has T > 0 rows gets the line T and exactly one append of
\* T rows.
C9_ZeroRowsRecordedNotAppended ==
    (pc \in {"next", "done"}) =>
        /\ Len(lengths) = Len(yielded)
        /\ \A k \in 1..Len(yielded) : lengths[k] = Len(yielded[k])
        /\ appends = Cardinality({k \in 1..Len(yielded) : Committed(k)})
        /\ Len(npy) = Sum([k \in 1..Len(yielded) |-> Len(yielded[k])])

C9_Witness ==
    /\ Completed
    /\ lengths = <<MaxRows, 0>>
    /\ Len(npy) = MaxRows
    /\ appends = 1

\* Lines this run has written to the Lengths Manifest so far.
Written == IF pc \in {"get_iterator", "open_lengths"} THEN <<>> ELSE lengths

====
